---- MODULE Spec2Model ----
(***************************************************************************)
(* Model of the Job Crawler configuration API (src/src/api/app.py).        *)
(*                                                                         *)
(* A str is the sequence of its code points, so that str.strip(),          *)
(* str.lower(), str.split('@') and the `in` substring test are computed    *)
(* character by character, on every character a str can hold.  A JSON      *)
(* object with optional keys is a function whose DOMAIN is the set of keys *)
(* that are present, as a Python dict.                                     *)
(*                                                                         *)
(* The profile store (src.database.profile_manager) and Config             *)
(* (config.config) are imported by app.py but are not part of the source   *)
(* at hand: they are modelled from the specification (a table of profile   *)
(* rows keyed by a unique email, each store call committing on its own).   *)
(*                                                                         *)
(* A handler is a sequence of steps, one for each store call it makes,     *)
(* taken by a request thread: app.run serves every request in a thread of  *)
(* its own and app.py holds no lock, so the steps of two handlers in       *)
(* flight interleave.                                                      *)
(***************************************************************************)
EXTENDS Integers, Sequences, FiniteSets, TLC

VARIABLES
    store,      \* the profile table: a sequence of profile rows, in insertion order
    config,     \* Config: the process-wide settings read by GET /config
    scenario,   \* the family of requests the clients of this behaviour send
    threads     \* the request threads of the server: for each, the request it
                \* handles, its place in the handler and the handler's locals

vars == <<store, config, scenario, threads>>

(***************************************************************************)
(* Bounds of the model.                                                    *)
(***************************************************************************)
MaxEmails == 2      \* longest receiver_emails list of the "emails" scenario
MaxLocs == 2        \* longest locations list of the "locations" scenario
MaxRanges == 2      \* longest salary_ranges list of the "salary" scenario
MaxFailAt == 6      \* the store call that fails, 1..MaxFailAt (0: none)

(***************************************************************************)
(* Strings.                                                                *)
(***************************************************************************)
SetMin(S) == CHOOSE m \in S : \A n \in S : m <= n
SetMax(S) == CHOOSE m \in S : \A n \in S : n <= m

\* The characters str.strip() removes from a str, those str.isspace() holds
\* of: \t \n \x0b \x0c \r, \x1c to \x1f, the space, \x85, \xa0, \u1680,
\* \u2000 to \u200a, \u2028, \u2029, \u202f, \u205f and \u3000.
Whitespace ==
    (9..13) \cup (28..32) \cup {133, 160, 5760} \cup (8192..8202)
        \cup {8232, 8233, 8239, 8287, 12288}

\* The lower-case mapping of str.lower() (Unicode 14.0, as Python 3.11 has
\* it).  <<from, to, step, delta>>: each character from, from + step, ..., to
\* has the lower-case form delta code points after it.  The first run is
\* A-Z; <<8490, 8490, 1, -8383>> is the Kelvin sign, whose lower case is k.
LowerRuns ==
    {<<65, 90, 1, 32>>, <<192, 214, 1, 32>>, <<216, 222, 1, 32>>,
     <<256, 302, 2, 1>>, <<306, 310, 2, 1>>, <<313, 327, 2, 1>>,
     <<330, 374, 2, 1>>, <<376, 376, 1, -121>>, <<377, 381, 2, 1>>,
     <<385, 385, 1, 210>>, <<386, 388, 2, 1>>, <<390, 390, 1, 206>>,
     <<391, 391, 1, 1>>, <<393, 394, 1, 205>>, <<395, 395, 1, 1>>,
     <<398, 398, 1, 79>>, <<399, 399, 1, 202>>, <<400, 400, 1, 203>>,
     <<401, 401, 1, 1>>, <<403, 403, 1, 205>>, <<404, 404, 1, 207>>,
     <<406, 406, 1, 211>>, <<407, 407, 1, 209>>, <<408, 408, 1, 1>>,
     <<412, 412, 1, 211>>, <<413, 413, 1, 213>>, <<415, 415, 1, 214>>,
     <<416, 420, 2, 1>>, <<422, 422, 1, 218>>, <<423, 423, 1, 1>>,
     <<425, 425, 1, 218>>, <<428, 428, 1, 1>>, <<430, 430, 1, 218>>,
     <<431, 431, 1, 1>>, <<433, 434, 1, 217>>, <<435, 437, 2, 1>>,
     <<439, 439, 1, 219>>, <<440, 440, 1, 1>>, <<444, 444, 1, 1>>,
     <<452, 452, 1, 2>>, <<453, 453, 1, 1>>, <<455, 455, 1, 2>>,
     <<456, 456, 1, 1>>, <<458, 458, 1, 2>>, <<459, 475, 2, 1>>,
     <<478, 494, 2, 1>>, <<497, 497, 1, 2>>, <<498, 500, 2, 1>>,
     <<502, 502, 1, -97>>, <<503, 503, 1, -56>>, <<504, 542, 2, 1>>,
     <<544, 544, 1, -130>>, <<546, 562, 2, 1>>, <<570, 570, 1, 10795>>,
     <<571, 571, 1, 1>>, <<573, 573, 1, -163>>, <<574, 574, 1, 10792>>,
     <<577, 577, 1, 1>>, <<579, 579, 1, -195>>, <<580, 580, 1, 69>>,
     <<581, 581, 1, 71>>, <<582, 590, 2, 1>>, <<880, 882, 2, 1>>,
     <<886, 886, 1, 1>>, <<895, 895, 1, 116>>, <<902, 902, 1, 38>>,
     <<904, 906, 1, 37>>, <<908, 908, 1, 64>>, <<910, 911, 1, 63>>,
     <<913, 929, 1, 32>>, <<932, 939, 1, 32>>, <<975, 975, 1, 8>>,
     <<984, 1006, 2, 1>>, <<1012, 1012, 1, -60>>, <<1015, 1015, 1, 1>>,
     <<1017, 1017, 1, -7>>, <<1018, 1018, 1, 1>>, <<1021, 1023, 1, -130>>,
     <<1024, 1039, 1, 80>>, <<1040, 1071, 1, 32>>, <<1120, 1152, 2, 1>>,
     <<1162, 1214, 2, 1>>, <<1216, 1216, 1, 15>>, <<1217, 1229, 2, 1>>,
     <<1232, 1326, 2, 1>>, <<1329, 1366, 1, 48>>, <<4256, 4293, 1, 7264>>,
     <<4295, 4295, 1, 7264>>, <<4301, 4301, 1, 7264>>,
     <<5024, 5103, 1, 38864>>, <<5104, 5109, 1, 8>>, <<7312, 7354, 1, -3008>>,
     <<7357, 7359, 1, -3008>>, <<7680, 7828, 2, 1>>, <<7838, 7838, 1, -7615>>,
     <<7840, 7934, 2, 1>>, <<7944, 7951, 1, -8>>, <<7960, 7965, 1, -8>>,
     <<7976, 7983, 1, -8>>, <<7992, 7999, 1, -8>>, <<8008, 8013, 1, -8>>,
     <<8025, 8031, 2, -8>>, <<8040, 8047, 1, -8>>, <<8072, 8079, 1, -8>>,
     <<8088, 8095, 1, -8>>, <<8104, 8111, 1, -8>>, <<8120, 8121, 1, -8>>,
     <<8122, 8123, 1, -74>>, <<8124, 8124, 1, -9>>, <<8136, 8139, 1, -86>>,
     <<8140, 8140, 1, -9>>, <<8152, 8153, 1, -8>>, <<8154, 8155, 1, -100>>,
     <<8168, 8169, 1, -8>>, <<8170, 8171, 1, -112>>, <<8172, 8172, 1, -7>>,
     <<8184, 8185, 1, -128>>, <<8186, 8187, 1, -126>>, <<8188, 8188, 1, -9>>,
     <<8486, 8486, 1, -7517>>, <<8490, 8490, 1, -8383>>,
     <<8491, 8491, 1, -8262>>, <<8498, 8498, 1, 28>>, <<8544, 8559, 1, 16>>,
     <<8579, 8579, 1, 1>>, <<9398, 9423, 1, 26>>, <<11264, 11311, 1, 48>>,
     <<11360, 11360, 1, 1>>, <<11362, 11362, 1, -10743>>,
     <<11363, 11363, 1, -3814>>, <<11364, 11364, 1, -10727>>,
     <<11367, 11371, 2, 1>>, <<11373, 11373, 1, -10780>>,
     <<11374, 11374, 1, -10749>>, <<11375, 11375, 1, -10783>>,
     <<11376, 11376, 1, -10782>>, <<11378, 11378, 1, 1>>,
     <<11381, 11381, 1, 1>>, <<11390, 11391, 1, -10815>>,
     <<11392, 11490, 2, 1>>, <<11499, 11501, 2, 1>>, <<11506, 11506, 1, 1>>,
     <<42560, 42604, 2, 1>>, <<42624, 42650, 2, 1>>, <<42786, 42798, 2, 1>>,
     <<42802, 42862, 2, 1>>, <<42873, 42875, 2, 1>>,
     <<42877, 42877, 1, -35332>>, <<42878, 42886, 2, 1>>,
     <<42891, 42891, 1, 1>>, <<42893, 42893, 1, -42280>>,
     <<42896, 42898, 2, 1>>, <<42902, 42920, 2, 1>>,
     <<42922, 42922, 1, -42308>>, <<42923, 42923, 1, -42319>>,
     <<42924, 42924, 1, -42315>>, <<42925, 42925, 1, -42305>>,
     <<42926, 42926, 1, -42308>>, <<42928, 42928, 1, -42258>>,
     <<42929, 42929, 1, -42282>>, <<42930, 42930, 1, -42261>>,
     <<42931, 42931, 1, 928>>, <<42932, 42946, 2, 1>>,
     <<42948, 42948, 1, -48>>, <<42949, 42949, 1, -42307>>,
     <<42950, 42950, 1, -35384>>, <<42951, 42953, 2, 1>>,
     <<42960, 42960, 1, 1>>, <<42966, 42968, 2, 1>>, <<42997, 42997, 1, 1>>,
     <<65313, 65338, 1, 32>>, <<66560, 66599, 1, 40>>,
     <<66736, 66771, 1, 40>>, <<66928, 66938, 1, 39>>,
     <<66940, 66954, 1, 39>>, <<66956, 66962, 1, 39>>,
     <<66964, 66965, 1, 39>>, <<68736, 68786, 1, 64>>,
     <<71840, 71871, 1, 32>>, <<93760, 93791, 1, 32>>,
     <<125184, 125217, 1, 34>>}

\* The characters with the Unicode property Cased, as ranges <<first, last>>.
CasedRanges ==
    {<<65, 90>>, <<97, 122>>, <<170, 170>>, <<181, 181>>, <<186, 186>>,
     <<192, 214>>, <<216, 246>>, <<248, 442>>, <<444, 447>>, <<452, 659>>,
     <<661, 696>>, <<704, 705>>, <<736, 740>>, <<837, 837>>, <<880, 883>>,
     <<886, 887>>, <<890, 893>>, <<895, 895>>, <<902, 902>>, <<904, 906>>,
     <<908, 908>>, <<910, 929>>, <<931, 1013>>, <<1015, 1153>>,
     <<1162, 1327>>, <<1329, 1366>>, <<1376, 1416>>, <<4256, 4293>>,
     <<4295, 4295>>, <<4301, 4301>>, <<4304, 4346>>, <<4349, 4351>>,
     <<5024, 5109>>, <<5112, 5117>>, <<7296, 7304>>, <<7312, 7354>>,
     <<7357, 7359>>, <<7424, 7615>>, <<7680, 7957>>, <<7960, 7965>>,
     <<7968, 8005>>, <<8008, 8013>>, <<8016, 8023>>, <<8025, 8025>>,
     <<8027, 8027>>, <<8029, 8029>>, <<8031, 8061>>, <<8064, 8116>>,
     <<8118, 8124>>, <<8126, 8126>>, <<8130, 8132>>, <<8134, 8140>>,
     <<8144, 8147>>, <<8150, 8155>>, <<8160, 8172>>, <<8178, 8180>>,
     <<8182, 8188>>, <<8305, 8305>>, <<8319, 8319>>, <<8336, 8348>>,
     <<8450, 8450>>, <<8455, 8455>>, <<8458, 8467>>, <<8469, 8469>>,
     <<8473, 8477>>, <<8484, 8484>>, <<8486, 8486>>, <<8488, 8488>>,
     <<8490, 8493>>, <<8495, 8500>>, <<8505, 8505>>, <<8508, 8511>>,
     <<8517, 8521>>, <<8526, 8526>>, <<8544, 8575>>, <<8579, 8580>>,
     <<9398, 9449>>, <<11264, 11492>>, <<11499, 11502>>, <<11506, 11507>>,
     <<11520, 11557>>, <<11559, 11559>>, <<11565, 11565>>, <<42560, 42605>>,
     <<42624, 42653>>, <<42786, 42887>>, <<42891, 42894>>, <<42896, 42954>>,
     <<42960, 42961>>, <<42963, 42963>>, <<42965, 42969>>, <<42997, 42998>>,
     <<43000, 43002>>, <<43824, 43866>>, <<43868, 43880>>, <<43888, 43967>>,
     <<64256, 64262>>, <<64275, 64279>>, <<65313, 65338>>, <<65345, 65370>>,
     <<66560, 66639>>, <<66736, 66771>>, <<66776, 66811>>, <<66928, 66938>>,
     <<66940, 66954>>, <<66956, 66962>>, <<66964, 66965>>, <<66967, 66977>>,
     <<66979, 66993>>, <<66995, 67001>>, <<67003, 67004>>, <<67456, 67456>>,
     <<67459, 67461>>, <<67463, 67504>>, <<67506, 67514>>, <<68736, 68786>>,
     <<68800, 68850>>, <<71840, 71903>>, <<93760, 93823>>, <<119808, 119892>>,
     <<119894, 119964>>, <<119966, 119967>>, <<119970, 119970>>,
     <<119973, 119974>>, <<119977, 119980>>, <<119982, 119993>>,
     <<119995, 119995>>, <<119997, 120003>>, <<120005, 120069>>,
     <<120071, 120074>>, <<120077, 120084>>, <<120086, 120092>>,
     <<120094, 120121>>, <<120123, 120126>>, <<120128, 120132>>,
     <<120134, 120134>>, <<120138, 120144>>, <<120146, 120485>>,
     <<120488, 120512>>, <<120514, 120538>>, <<120540, 120570>>,
     <<120572, 120596>>, <<120598, 120628>>, <<120630, 120654>>,
     <<120656, 120686>>, <<120688, 120712>>, <<120714, 120744>>,
     <<120746, 120770>>, <<120772, 120779>>, <<122624, 122633>>,
     <<122635, 122654>>, <<125184, 125251>>, <<127280, 127305>>,
     <<127312, 127337>>, <<127344, 127369>>}

\* The characters with the Unicode property Case_Ignorable.
CaseIgnorableRanges ==
    {<<39, 39>>, <<46, 46>>, <<58, 58>>, <<94, 94>>, <<96, 96>>, <<168, 168>>,
     <<173, 173>>, <<175, 175>>, <<180, 180>>, <<183, 184>>, <<688, 879>>,
     <<884, 885>>, <<890, 890>>, <<900, 901>>, <<903, 903>>, <<1155, 1161>>,
     <<1369, 1369>>, <<1375, 1375>>, <<1425, 1469>>, <<1471, 1471>>,
     <<1473, 1474>>, <<1476, 1477>>, <<1479, 1479>>, <<1524, 1524>>,
     <<1536, 1541>>, <<1552, 1562>>, <<1564, 1564>>, <<1600, 1600>>,
     <<1611, 1631>>, <<1648, 1648>>, <<1750, 1757>>, <<1759, 1768>>,
     <<1770, 1773>>, <<1807, 1807>>, <<1809, 1809>>, <<1840, 1866>>,
     <<1958, 1968>>, <<2027, 2037>>, <<2042, 2042>>, <<2045, 2045>>,
     <<2070, 2093>>, <<2137, 2139>>, <<2184, 2184>>, <<2192, 2193>>,
     <<2200, 2207>>, <<2249, 2306>>, <<2362, 2362>>, <<2364, 2364>>,
     <<2369, 2376>>, <<2381, 2381>>, <<2385, 2391>>, <<2402, 2403>>,
     <<2417, 2417>>, <<2433, 2433>>, <<2492, 2492>>, <<2497, 2500>>,
     <<2509, 2509>>, <<2530, 2531>>, <<2558, 2558>>, <<2561, 2562>>,
     <<2620, 2620>>, <<2625, 2626>>, <<2631, 2632>>, <<2635, 2637>>,
     <<2641, 2641>>, <<2672, 2673>>, <<2677, 2677>>, <<2689, 2690>>,
     <<2748, 2748>>, <<2753, 2757>>, <<2759, 2760>>, <<2765, 2765>>,
     <<2786, 2787>>, <<2810, 2815>>, <<2817, 2817>>, <<2876, 2876>>,
     <<2879, 2879>>, <<2881, 2884>>, <<2893, 2893>>, <<2901, 2902>>,
     <<2914, 2915>>, <<2946, 2946>>, <<3008, 3008>>, <<3021, 3021>>,
     <<3072, 3072>>, <<3076, 3076>>, <<3132, 3132>>, <<3134, 3136>>,
     <<3142, 3144>>, <<3146, 3149>>, <<3157, 3158>>, <<3170, 3171>>,
     <<3201, 3201>>, <<3260, 3260>>, <<3263, 3263>>, <<3270, 3270>>,
     <<3276, 3277>>, <<3298, 3299>>, <<3328, 3329>>, <<3387, 3388>>,
     <<3393, 3396>>, <<3405, 3405>>, <<3426, 3427>>, <<3457, 3457>>,
     <<3530, 3530>>, <<3538, 3540>>, <<3542, 3542>>, <<3633, 3633>>,
     <<3636, 3642>>, <<3654, 3662>>, <<3761, 3761>>, <<3764, 3772>>,
     <<3782, 3782>>, <<3784, 3789>>, <<3864, 3865>>, <<3893, 3893>>,
     <<3895, 3895>>, <<3897, 3897>>, <<3953, 3966>>, <<3968, 3972>>,
     <<3974, 3975>>, <<3981, 3991>>, <<3993, 4028>>, <<4038, 4038>>,
     <<4141, 4144>>, <<4146, 4151>>, <<4153, 4154>>, <<4157, 4158>>,
     <<4184, 4185>>, <<4190, 4192>>, <<4209, 4212>>, <<4226, 4226>>,
     <<4229, 4230>>, <<4237, 4237>>, <<4253, 4253>>, <<4348, 4348>>,
     <<4957, 4959>>, <<5906, 5908>>, <<5938, 5939>>, <<5970, 5971>>,
     <<6002, 6003>>, <<6068, 6069>>, <<6071, 6077>>, <<6086, 6086>>,
     <<6089, 6099>>, <<6103, 6103>>, <<6109, 6109>>, <<6155, 6159>>,
     <<6211, 6211>>, <<6277, 6278>>, <<6313, 6313>>, <<6432, 6434>>,
     <<6439, 6440>>, <<6450, 6450>>, <<6457, 6459>>, <<6679, 6680>>,
     <<6683, 6683>>, <<6742, 6742>>, <<6744, 6750>>, <<6752, 6752>>,
     <<6754, 6754>>, <<6757, 6764>>, <<6771, 6780>>, <<6783, 6783>>,
     <<6823, 6823>>, <<6832, 6862>>, <<6912, 6915>>, <<6964, 6964>>,
     <<6966, 6970>>, <<6972, 6972>>, <<6978, 6978>>, <<7019, 7027>>,
     <<7040, 7041>>, <<7074, 7077>>, <<7080, 7081>>, <<7083, 7085>>,
     <<7142, 7142>>, <<7144, 7145>>, <<7149, 7149>>, <<7151, 7153>>,
     <<7212, 7219>>, <<7222, 7223>>, <<7288, 7293>>, <<7376, 7378>>,
     <<7380, 7392>>, <<7394, 7400>>, <<7405, 7405>>, <<7412, 7412>>,
     <<7416, 7417>>, <<7468, 7530>>, <<7544, 7544>>, <<7579, 7679>>,
     <<8125, 8125>>, <<8127, 8129>>, <<8141, 8143>>, <<8157, 8159>>,
     <<8173, 8175>>, <<8189, 8190>>, <<8203, 8207>>, <<8216, 8217>>,
     <<8228, 8228>>, <<8231, 8231>>, <<8234, 8238>>, <<8288, 8292>>,
     <<8294, 8303>>, <<8305, 8305>>, <<8319, 8319>>, <<8336, 8348>>,
     <<8400, 8432>>, <<11388, 11389>>, <<11503, 11505>>, <<11631, 11631>>,
     <<11647, 11647>>, <<11744, 11775>>, <<11823, 11823>>, <<12293, 12293>>,
     <<12330, 12333>>, <<12337, 12341>>, <<12347, 12347>>, <<12441, 12446>>,
     <<12540, 12542>>, <<40981, 40981>>, <<42232, 42237>>, <<42508, 42508>>,
     <<42607, 42610>>, <<42612, 42621>>, <<42623, 42623>>, <<42652, 42655>>,
     <<42736, 42737>>, <<42752, 42785>>, <<42864, 42864>>, <<42888, 42890>>,
     <<42994, 42996>>, <<43000, 43001>>, <<43010, 43010>>, <<43014, 43014>>,
     <<43019, 43019>>, <<43045, 43046>>, <<43052, 43052>>, <<43204, 43205>>,
     <<43232, 43249>>, <<43263, 43263>>, <<43302, 43309>>, <<43335, 43345>>,
     <<43392, 43394>>, <<43443, 43443>>, <<43446, 43449>>, <<43452, 43453>>,
     <<43471, 43471>>, <<43493, 43494>>, <<43561, 43566>>, <<43569, 43570>>,
     <<43573, 43574>>, <<43587, 43587>>, <<43596, 43596>>, <<43632, 43632>>,
     <<43644, 43644>>, <<43696, 43696>>, <<43698, 43700>>, <<43703, 43704>>,
     <<43710, 43711>>, <<43713, 43713>>, <<43741, 43741>>, <<43756, 43757>>,
     <<43763, 43764>>, <<43766, 43766>>, <<43867, 43871>>, <<43881, 43883>>,
     <<44005, 44005>>, <<44008, 44008>>, <<44013, 44013>>, <<64286, 64286>>,
     <<64434, 64450>>, <<65024, 65039>>, <<65043, 65043>>, <<65056, 65071>>,
     <<65106, 65106>>, <<65109, 65109>>, <<65279, 65279>>, <<65287, 65287>>,
     <<65294, 65294>>, <<65306, 65306>>, <<65342, 65342>>, <<65344, 65344>>,
     <<65392, 65392>>, <<65438, 65439>>, <<65507, 65507>>, <<65529, 65531>>,
     <<66045, 66045>>, <<66272, 66272>>, <<66422, 66426>>, <<67456, 67461>>,
     <<67463, 67504>>, <<67506, 67514>>, <<68097, 68099>>, <<68101, 68102>>,
     <<68108, 68111>>, <<68152, 68154>>, <<68159, 68159>>, <<68325, 68326>>,
     <<68900, 68903>>, <<69291, 69292>>, <<69446, 69456>>, <<69506, 69509>>,
     <<69633, 69633>>, <<69688, 69702>>, <<69744, 69744>>, <<69747, 69748>>,
     <<69759, 69761>>, <<69811, 69814>>, <<69817, 69818>>, <<69821, 69821>>,
     <<69826, 69826>>, <<69837, 69837>>, <<69888, 69890>>, <<69927, 69931>>,
     <<69933, 69940>>, <<70003, 70003>>, <<70016, 70017>>, <<70070, 70078>>,
     <<70089, 70092>>, <<70095, 70095>>, <<70191, 70193>>, <<70196, 70196>>,
     <<70198, 70199>>, <<70206, 70206>>, <<70367, 70367>>, <<70371, 70378>>,
     <<70400, 70401>>, <<70459, 70460>>, <<70464, 70464>>, <<70502, 70508>>,
     <<70512, 70516>>, <<70712, 70719>>, <<70722, 70724>>, <<70726, 70726>>,
     <<70750, 70750>>, <<70835, 70840>>, <<70842, 70842>>, <<70847, 70848>>,
     <<70850, 70851>>, <<71090, 71093>>, <<71100, 71101>>, <<71103, 71104>>,
     <<71132, 71133>>, <<71219, 71226>>, <<71229, 71229>>, <<71231, 71232>>,
     <<71339, 71339>>, <<71341, 71341>>, <<71344, 71349>>, <<71351, 71351>>,
     <<71453, 71455>>, <<71458, 71461>>, <<71463, 71467>>, <<71727, 71735>>,
     <<71737, 71738>>, <<71995, 71996>>, <<71998, 71998>>, <<72003, 72003>>,
     <<72148, 72151>>, <<72154, 72155>>, <<72160, 72160>>, <<72193, 72202>>,
     <<72243, 72248>>, <<72251, 72254>>, <<72263, 72263>>, <<72273, 72278>>,
     <<72281, 72283>>, <<72330, 72342>>, <<72344, 72345>>, <<72752, 72758>>,
     <<72760, 72765>>, <<72767, 72767>>, <<72850, 72871>>, <<72874, 72880>>,
     <<72882, 72883>>, <<72885, 72886>>, <<73009, 73014>>, <<73018, 73018>>,
     <<73020, 73021>>, <<73023, 73029>>, <<73031, 73031>>, <<73104, 73105>>,
     <<73109, 73109>>, <<73111, 73111>>, <<73459, 73460>>, <<78896, 78904>>,
     <<92912, 92916>>, <<92976, 92982>>, <<92992, 92995>>, <<94031, 94031>>,
     <<94095, 94111>>, <<94176, 94177>>, <<94179, 94180>>, <<110576, 110579>>,
     <<110581, 110587>>, <<110589, 110590>>, <<113821, 113822>>,
     <<113824, 113827>>, <<118528, 118573>>, <<118576, 118598>>,
     <<119143, 119145>>, <<119155, 119170>>, <<119173, 119179>>,
     <<119210, 119213>>, <<119362, 119364>>, <<121344, 121398>>,
     <<121403, 121452>>, <<121461, 121461>>, <<121476, 121476>>,
     <<121499, 121503>>, <<121505, 121519>>, <<122880, 122886>>,
     <<122888, 122904>>, <<122907, 122913>>, <<122915, 122916>>,
     <<122918, 122922>>, <<123184, 123197>>, <<123566, 123566>>,
     <<123628, 123631>>, <<125136, 125142>>, <<125252, 125259>>,
     <<127995, 127999>>, <<917505, 917505>>, <<917536, 917631>>,
     <<917760, 917999>>}

InRanges(c, ranges) == \E r \in ranges : r[1] <= c /\ c <= r[2]

Cased(c) == InRanges(c, CasedRanges)

CaseIgnorable(c) == InRanges(c, CaseIgnorableRanges)

\* Whether the capital sigma at s[i] ends a word: the nearest character
\* before it that is not case-ignorable is cased, and the nearest one after
\* it, if any, is not.
FinalSigma(s, i) ==
    LET before == {j \in 1..(i - 1) : ~CaseIgnorable(s[j])}
        after == {j \in (i + 1)..Len(s) : ~CaseIgnorable(s[j])}
    IN  /\ before # {}
        /\ Cased(s[SetMax(before)])
        /\ after = {} \/ ~Cased(s[SetMin(after)])

\* The lower case of the character s[i]: one character, but for the capital
\* I with a dot above (i and a combining dot); of the capital sigma the
\* final or the medial small sigma.  Of the ASCII characters only A-Z change.
LowerChar(s, i) ==
    LET c == s[i]
        runs == {r \in LowerRuns : r[1] <= c /\ c <= r[2] /\ (c - r[1]) % r[3] = 0}
    IN  IF c < 128 THEN <<IF c \in 65..90 THEN c + 32 ELSE c>>
        ELSE IF c = 931 THEN IF FinalSigma(s, i) THEN <<962>> ELSE <<963>>
        ELSE IF c = 304 THEN <<105, 775>>
        ELSE IF runs = {} THEN <<c>>
        ELSE <<c + (CHOOSE r \in runs : TRUE)[4]>>

RECURSIVE LowerFrom(_, _)
LowerFrom(s, i) == IF i > Len(s) THEN <<>> ELSE LowerChar(s, i) \o LowerFrom(s, i + 1)

\* str.lower()
Lower(s) == LowerFrom(s, 1)

\* str.strip(): without its leading and trailing whitespace.
Strip(s) ==
    LET keep == {i \in 1..Len(s) : s[i] \notin Whitespace}
    IN  IF keep = {} THEN <<>> ELSE SubSeq(s, SetMin(keep), SetMax(keep))

\* `sub in s` on strings.
Contains(s, sub) ==
    \E i \in 1..(Len(s) - Len(sub) + 1) : SubSeq(s, i, i + Len(sub) - 1) = sub

\* email.split('@')[0]: what precedes the first '@', or the whole string.
SplitAt(s) ==
    LET at == {i \in 1..Len(s) : s[i] = 64}
    IN  IF at = {} THEN s ELSE SubSeq(s, 1, SetMin(at) - 1)

\* [f(x) for x in xs if keep(x)] is SelectSeq followed by a map.
MapSeq(xs, F(_)) == [i \in 1..Len(xs) |-> F(xs[i])]

(***************************************************************************)
(* Python dicts.                                                           *)
(***************************************************************************)
EmptyDict == [k \in {} |-> 0]

\* dict.get(key, default)
Get(d, key, default) == IF key \in DOMAIN d THEN d[key] ELSE default

\* dict.get(key) used as a condition on a number: absent (None) and 0 are falsy.
TruthyNum(d, key) == key \in DOMAIN d /\ d[key] # 0

(***************************************************************************)
(* The profile store.                                                      *)
(***************************************************************************)
\* The row create_default_profile(email, name) inserts.
DefaultProfile(email, name) ==
    [ email               |-> email,
      name                |-> name,
      preferred_locations |-> <<>>,
      expected_salary_min |-> 0,
      expected_salary_max |-> 0,
      experience_years    |-> 0,
      current_role        |-> <<>>,
      primary_skills      |-> <<>>,
      is_active           |-> TRUE ]

RowsOf(st, email) == {i \in 1..Len(st) : st[i].email = email}

HasProfile(st, email) == RowsOf(st, email) # {}

\* get_user_profile(email): the row of that email, or None (found = FALSE).
GetUserProfile(st, email) ==
    IF HasProfile(st, email)
    THEN [found |-> TRUE, profile |-> st[SetMin(RowsOf(st, email))]]
    ELSE [found |-> FALSE, profile |-> DefaultProfile(email, <<>>)]

\* create_default_profile(email, name): inserts the default row; the email is
\* the table's unique key, so inserting a second row for it raises.
CreateDefaultProfile(st, email, name) ==
    IF HasProfile(st, email)
    THEN [raised |-> TRUE, store |-> st]
    ELSE [raised |-> FALSE, store |-> Append(st, DefaultProfile(email, name))]

\* The row with the fields of update_data set.
Updated(row, update_data) ==
    [k \in DOMAIN row |-> IF k \in DOMAIN update_data THEN update_data[k] ELSE row[k]]

\* update_user_profile(email, **update_data): sets the given fields of the
\* email's row and returns it, or returns None when there is no such row.
UpdateUserProfile(st, email, update_data) ==
    IF HasProfile(st, email)
    THEN LET i == SetMin(RowsOf(st, email))
             row == Updated(st[i], update_data)
         IN  [found |-> TRUE, profile |-> row, store |-> [st EXCEPT ![i] = row]]
    ELSE [found |-> FALSE, profile |-> DefaultProfile(email, <<>>), store |-> st]

\* get_all_active_profiles()
GetAllActiveProfiles(st) == SelectSeq(st, LAMBDA row : row.is_active)

(***************************************************************************)
(* POST /api/config: the pure parts of update_config.                      *)
(***************************************************************************)
\* Mutant of NoReceivers: only a missing key is rejected, an empty list is not.
NoReceivers_MissingOnly(body) == "receiver_emails" \notin DOMAIN body

\* `not receiver_emails`: the key is missing (the default []) or the list is empty.
NoReceivers(body) == Get(body, "receiver_emails", <<>>) = <<>>

\* Mutant of StrippedLocations: the `if loc.strip()` filter is left out.
StrippedLocations_KeepBlanks(locations) == MapSeq(locations, Strip)

\* [loc.strip() for loc in locations if loc.strip()]
StrippedLocations(locations) ==
    MapSeq(SelectSeq(locations, LAMBDA loc : Strip(loc) # <<>>), Strip)

\* Mutant of LocationsUpdate: the new locations extend the profile's list.
LocationsUpdate_Extend(profile, body) ==
    LET locations == Get(body, "locations", <<>>)
    IN  IF locations # <<>>
        THEN [preferred_locations |->
                 profile.preferred_locations
                    \o MapSeq(SelectSeq(locations, LAMBDA loc : Strip(loc) # <<>>), Strip)]
        ELSE EmptyDict

\* update_data['preferred_locations'], set when locations is a non-empty list.
LocationsUpdate(profile, body) ==
    LET locations == Get(body, "locations", <<>>)
    IN  IF locations # <<>>
        THEN [preferred_locations |-> StrippedLocations(locations)]
        ELSE EmptyDict

\* [r.get('min', 0) for r in salary_ranges if r.get('min')]
AllMins(salary_ranges) ==
    MapSeq(SelectSeq(salary_ranges, LAMBDA r : TruthyNum(r, "min")),
           LAMBDA r : Get(r, "min", 0))

\* [r.get('max', 999999) for r in salary_ranges if r.get('max')]
AllMaxs(salary_ranges) ==
    MapSeq(SelectSeq(salary_ranges, LAMBDA r : TruthyNum(r, "max")),
           LAMBDA r : Get(r, "max", 999999))

\* min(xs) and max(xs) of a non-empty list.
SeqMin(xs) == SetMin({xs[i] : i \in 1..Len(xs)})
SeqMax(xs) == SetMax({xs[i] : i \in 1..Len(xs)})

\* update_data['expected_salary_min'] and ['expected_salary_max'].
SalaryUpdate(body) ==
    LET salary_ranges == Get(body, "salary_ranges", <<>>)
        all_mins == AllMins(salary_ranges)
        all_maxs == AllMaxs(salary_ranges)
    IN  IF salary_ranges # <<>>
        THEN (IF all_mins # <<>>
              THEN [expected_salary_min |-> SeqMin(all_mins)] ELSE EmptyDict)
             @@
             (IF all_maxs # <<>>
              THEN [expected_salary_max |-> SeqMax(all_maxs)] ELSE EmptyDict)
        ELSE EmptyDict

\* Mutant of ExperienceUpdate: experience_max stands in for a missing experience_min.
ExperienceUpdate_FromMax(body) ==
    IF "experience_min" \in DOMAIN body
    THEN [experience_years |-> body["experience_min"]]
    ELSE IF "experience_max" \in DOMAIN body
    THEN [experience_years |-> body["experience_max"]]
    ELSE EmptyDict

\* update_data['experience_years'], set when experience_min is not None.
ExperienceUpdate(body) ==
    IF "experience_min" \in DOMAIN body
    THEN [experience_years |-> body["experience_min"]]
    ELSE EmptyDict

Python == <<112, 121, 116, 104, 111, 110>>    \* "python"
React == <<114, 101, 97, 99, 116>>    \* "react"
Frontend == <<102, 114, 111, 110, 116, 101, 110, 100>>    \* "frontend"
Backend == <<98, 97, 99, 107, 101, 110, 100>>    \* "backend"

\* Mutant of SkillsUpdate: the backend test comes before the react/frontend one.
SkillsUpdate_BackendFirst(job_title) ==
    IF Contains(Lower(job_title), Python)
    THEN [primary_skills |-> <<"Python", "JavaScript", "React">>]
    ELSE IF Contains(Lower(job_title), Backend)
    THEN [primary_skills |-> <<"Python", "Java", "Node.js">>]
    ELSE IF Contains(Lower(job_title), React) \/ Contains(Lower(job_title), Frontend)
    THEN [primary_skills |-> <<"React", "JavaScript", "TypeScript">>]
    ELSE EmptyDict

\* update_data['primary_skills'], from the keywords of the job title.
SkillsUpdate(job_title) ==
    IF Contains(Lower(job_title), Python)
    THEN [primary_skills |-> <<"Python", "JavaScript", "React">>]
    ELSE IF Contains(Lower(job_title), React) \/ Contains(Lower(job_title), Frontend)
    THEN [primary_skills |-> <<"React", "JavaScript", "TypeScript">>]
    ELSE IF Contains(Lower(job_title), Backend)
    THEN [primary_skills |-> <<"Python", "Java", "Node.js">>]
    ELSE EmptyDict

\* update_data['current_role'] and the skills, set when job_title is non-empty.
RoleUpdate(body) ==
    LET job_title == Get(body, "job_title", <<>>)
    IN  IF job_title # <<>>
        THEN [current_role |-> job_title] @@ SkillsUpdate(job_title)
        ELSE EmptyDict

\* The update_data dict built for one profile.
UpdateData(profile, body) ==
    LocationsUpdate(profile, body) @@ SalaryUpdate(body)
        @@ ExperienceUpdate(body) @@ RoleUpdate(body)

\* `if not email or not email.strip(): continue`
SkipEmail(raw) == raw = <<>> \/ Strip(raw) = <<>>


(***************************************************************************)
(* Responses.                                                              *)
(***************************************************************************)
NoResponse == [status |-> 0, body |-> EmptyDict]

\* jsonify({'error': str(e)}), 500
InternalError == [status |-> 500, body |-> [error |-> "exception"]]

\* jsonify({'error': 'At least one receiver email is required'}), 400
NoReceiversResponse ==
    [status |-> 400, body |-> [error |-> "At least one receiver email is required"]]

\* The response update_config returns after its loop.
UpdateConfigResponse(updated_profiles) ==
    [status |-> 200,
     body |-> [message |-> "Configuration updated successfully",
               profiles |-> updated_profiles,
               updated_count |-> Len(updated_profiles)]]

\* health_check
HealthCheckResponse ==
    [status |-> 200,
     body |-> [status |-> "healthy", message |-> "Job Crawler API is running"]]

\* get_config, its store call answering `outcome`: "ok", "raise" (the call
\* raises) or "none" (the call returns None, which the handler cannot iterate).
GetConfigResponse(st, cfg, outcome) ==
    IF outcome # "ok"
    THEN InternalError
    ELSE [status |-> 200,
          body |-> [preferred_locations |-> cfg.PREFERRED_LOCATIONS,
                    min_salary |-> cfg.MIN_SALARY,
                    max_salary |-> cfg.MAX_SALARY,
                    email_recipients |-> IF cfg.EMAIL_RECIPIENT # <<>>
                                         THEN <<cfg.EMAIL_RECIPIENT>> ELSE <<>>,
                    profiles |-> GetAllActiveProfiles(st)]]

\* get_profiles
GetProfilesResponse(st, outcome) ==
    IF outcome # "ok"
    THEN InternalError
    ELSE [status |-> 200, body |-> [profiles |-> GetAllActiveProfiles(st)]]

\* Mutant of GetProfileResponse: a missing profile is answered with 200.
GetProfileResponse_NeverNotFound(st, email, outcome) ==
    IF outcome = "raise"
    THEN InternalError
    ELSE [status |-> 200, body |-> GetUserProfile(st, email).profile]

\* get_profile(email)
GetProfileResponse(st, email, outcome) ==
    IF outcome = "raise"
    THEN InternalError
    ELSE IF outcome = "ok" /\ GetUserProfile(st, email).found
    THEN [status |-> 200, body |-> GetUserProfile(st, email).profile]
    ELSE [status |-> 404, body |-> [error |-> "Profile not found"]]

(***************************************************************************)
(* The inputs of the model.                                                *)
(***************************************************************************)
EmailA == <<97, 64, 120>>    \* "a@x"
EmailAPadded == <<11, 32, 97, 64, 120, 9, 28>>    \* "\x0b a@x\t\x1c"
EmailB == <<98, 64, 121>>    \* "b@y"
EmailC == <<99, 64, 122>>    \* "c@z", never configured
Blank == <<32, 13, 29, 160, 12288>>    \* " \r\x1d\xa0\u3000"
NYC == <<78, 89, 67>>    \* "NYC"
LAPadded == <<12, 31, 76, 65, 133, 10>>    \* "\f\x1fLA\x85\n"
Pune == <<80, 117, 110, 101>>    \* "Pune"
Analyst == <<65, 110, 97, 108, 121, 115, 116>>    \* "Analyst"
PythonReactDev == <<80, 89, 84, 72, 79, 78, 32, 114, 101, 97, 99, 116>>    \* "PYTHON react"
FrontendBackend == <<70, 114, 111, 110, 116, 101, 110, 100, 47, 98, 97, 99, 107, 101, 110, 100>>    \* "Frontend/backend"
ReactNative == <<82, 101, 97, 99, 116, 32, 78, 97, 116, 105, 118, 101>>    \* "React Native"
BackendEngineer == <<66, 97, 99, 107, 101, 110, 100, 32, 69, 110, 103, 105, 110, 101, 101, 114>>    \* "Backend Engineer"
KelvinBackend == <<66, 65, 67, 8490, 69, 78, 68, 32, 304, 931>>    \* "BAC\u212aEND \u0130\u03a3"
Manager == <<77, 97, 110, 97, 103, 101, 114>>    \* "Manager"

EmailEntries == {<<>>, Blank, EmailA, EmailAPadded, EmailB}
LocEntries == {Blank, NYC, LAPadded}
RangeEntries ==
    {[min |-> 0, max |-> 10], [min |-> 5, max |-> 20], [min |-> 8, max |-> 0],
     [min |-> 3]}
Titles == {PythonReactDev, FrontendBackend, ReactNative, KelvinBackend, Manager}

SeqsUpTo(S, n) == UNION {[1..k -> S] : k \in 0..n}

\* A key of the JSON body: absent, or present with one of the values.
Opt(key, values) == {EmptyDict} \cup {key :> v : v \in values}

OnlyA == {"receiver_emails" :> <<EmailA>>}
OneOrOther == {"receiver_emails" :> <<EmailA>>, "receiver_emails" :> <<EmailB>>}

\* The JSON bodies of POST /api/config a scenario sends.  A behaviour draws all
\* its requests from one scenario: each varies one key of the body over many
\* values ("frame": every key present or absent), which keeps the reachable
\* tables few enough to enumerate.
Bodies(sc) ==
    CASE sc = "emails" ->
           {e @@ l : e \in Opt("receiver_emails", SeqsUpTo(EmailEntries, MaxEmails)),
                     l \in Opt("locations", {<<NYC>>})}
      [] sc = "locations" ->
           {e @@ l : e \in OnlyA,
                     l \in Opt("locations", SeqsUpTo(LocEntries, MaxLocs))}
      [] sc = "salary" ->
           {e @@ r : e \in OnlyA,
                     r \in Opt("salary_ranges", SeqsUpTo(RangeEntries, MaxRanges))}
      [] sc = "title" ->
           {e @@ t : e \in OneOrOther,
                     t \in Opt("job_title", Titles \cup {<<>>})}
      [] sc = "frame" ->
           {e @@ l @@ r @@ x @@ y @@ t :
                e \in Opt("receiver_emails", {<<>>, <<EmailA>>}),
                l \in Opt("locations", {<<NYC>>}),
                r \in Opt("salary_ranges", {<<[min |-> 5, max |-> 20]>>}),
                x \in Opt("experience_min", {0, 3}),
                y \in Opt("experience_max", {7}),
                t \in Opt("job_title", {BackendEngineer})}
      [] sc = "concurrent" ->
           {e @@ l : e \in {"receiver_emails" :> <<EmailA>>,
                            "receiver_emails" :> <<EmailB, EmailAPadded>>},
                     l \in Opt("locations", {<<NYC>>})}
      [] sc = "faults" ->
           {e @@ l : e \in Opt("receiver_emails", {<<EmailA>>, <<EmailB, EmailAPadded>>}),
                     l \in Opt("locations", {<<NYC>>})}

Scenarios == {"emails", "locations", "salary", "title", "frame"}

AllScenarios == Scenarios \cup {"faults", "concurrent"}

\* No store call fails.
NoFault == [at |-> 0, kind |-> "raise"]

\* The store call of a request that fails, and how: it raises, or it reports
\* the failure by returning None.
Faults(sc) ==
    IF sc = "faults"
    THEN {NoFault} \cup [at : 1..MaxFailAt, kind : {"raise", "none"}]
    ELSE {NoFault}

PathEmails(sc) ==
    IF sc = "concurrent" THEN {EmailA} ELSE {EmailA, EmailAPadded, EmailB, EmailC}

Request(op, body, email, fault) ==
    [op |-> op, body |-> body, email |-> email, fault |-> fault]

NoRequest == Request("none", EmptyDict, <<>>, NoFault)

Requests(sc) ==
    {Request(op, EmptyDict, <<>>, f) :
        op \in {"health_check", "get_config", "get_profiles"}, f \in Faults(sc)}
    \cup {Request("get_profile", EmptyDict, e, f) :
            e \in PathEmails(sc), f \in Faults(sc)}
    \cup {Request("update_config", b, <<>>, f) : b \in Bodies(sc), f \in Faults(sc)}

RequestsOf == [sc \in AllScenarios |-> Requests(sc)]

\* A profile configured before this process started.
StoredProfile(email) ==
    [ email               |-> email,
      name                |-> SplitAt(email),
      preferred_locations |-> <<Pune>>,
      expected_salary_min |-> 1,
      expected_salary_max |-> 2,
      experience_years    |-> 9,
      current_role        |-> Analyst,
      primary_skills      |-> <<"Go">>,
      is_active           |-> TRUE ]

\* The table init_db() finds: the database outlives the process.
InitialStores == {<<>>, <<StoredProfile(EmailB)>>, <<StoredProfile(EmailB), StoredProfile(EmailA)>>}

\* Config, as loaded from the environment.
Configs ==
    {[PREFERRED_LOCATIONS |-> <<NYC>>, MIN_SALARY |-> 5, MAX_SALARY |-> 50,
      EMAIL_RECIPIENT |-> r] : r \in {<<>>, EmailA}}

(***************************************************************************)
(* Request threads.                                                        *)
(***************************************************************************)
\* One request at a time, or two in flight at once.
Threads(sc) == IF sc = "concurrent" THEN {1, 2} ELSE {1}

\* A thread with no request.  Of a thread with one: pc is its place in the
\* handler, i the index of the receiver_emails entry of the loop, calls the
\* number of store calls made, updated the updated_profiles list; created
\* (the emails create_default_profile inserted a row for), raised (a store
\* call raised), before (the table when the request arrived) and prev (the
\* response to the same request sent just before) record what happened.
IdleThread ==
    [pc |-> "idle", req |-> NoRequest, i |-> 0, calls |-> 0, updated |-> <<>>,
     created |-> <<>>, raised |-> FALSE, resp |-> NoResponse,
     before |-> <<>>, prev |-> NoResponse]

\* How the store call the thread is about to make answers.
Outcome(h) == IF h.calls + 1 = h.req.fault.at THEN h.req.fault.kind ELSE "ok"

\* return response
Respond(h, response) == [h EXCEPT !.pc = "done", !.resp = response]

\* Mutant of Failed: the exception is swallowed and what was updated before
\* it is returned as a success.
Failed_Swallowed(h) ==
    [Respond(h, UpdateConfigResponse(h.updated)) EXCEPT !.raised = TRUE]

\* except Exception as e: ... return jsonify({'error': str(e)}), 500
Failed(h) == [Respond(h, InternalError) EXCEPT !.raised = TRUE]

\* The first index from i on of an entry the loop does not skip, 0 if none.
NextEmail(emails, i) ==
    LET rest == {j \in i..Len(emails) : ~SkipEmail(emails[j])}
    IN  IF rest = {} THEN 0 ELSE SetMin(rest)

\* Mutant of EmailOf: `email = email.strip()` is left out.
EmailOf_NoStrip(h) == h.req.body["receiver_emails"][h.i]

\* email = email.strip(): the email of the loop's current entry.
EmailOf(h) == Strip(h.req.body["receiver_emails"][h.i])

\* The thread at the loop's entry i (about to call get_user_profile), or, past
\* the last entry (i = 0), returning the response.
AtEmail(h, i) ==
    IF i = 0
    THEN Respond(h, UpdateConfigResponse(h.updated))
    ELSE [h EXCEPT !.pc = "get", !.i = i]

\* The thread after the loop's current entry.
AfterEmail(h) == AtEmail(h, NextEmail(h.req.body["receiver_emails"], h.i + 1))

TypeOK ==
    /\ scenario \in AllScenarios
    /\ config \in Configs
    /\ DOMAIN threads = Threads(scenario)
    /\ \A w \in DOMAIN threads :
          /\ threads[w].pc \in {"idle", "start", "get", "create", "update", "done"}
          /\ threads[w].calls \in 0..(1 + 3 * Len(Get(threads[w].req.body, "receiver_emails", <<>>)))

InitCommon ==
    /\ store \in InitialStores
    /\ config \in Configs
    /\ threads = [w \in Threads(scenario) |-> IdleThread]

Init == scenario \in Scenarios /\ InitCommon

InitFault == scenario = "faults" /\ InitCommon

InitConc == scenario = "concurrent" /\ InitCommon

\* A request arrives and is given to a thread.
Receive(w) ==
    /\ threads[w].pc = "idle"
    /\ \E r \in RequestsOf[scenario] :
          threads' = [threads EXCEPT ![w] =
                        [IdleThread EXCEPT !.pc = "start", !.req = r, !.before = store]]
    /\ UNCHANGED <<store, config, scenario>>

\* The client sends its POST /config again, unchanged.
Resubmit(w) ==
    /\ threads[w].pc = "done"
    /\ threads[w].req.op = "update_config"
    /\ threads' = [threads EXCEPT ![w] =
                     [IdleThread EXCEPT !.pc = "start", !.req = threads[w].req,
                                        !.before = store, !.prev = threads[w].resp]]
    /\ UNCHANGED <<store, config, scenario>>

\* The client takes the response; the thread keeps nothing of the request.
Reply(w) ==
    /\ threads[w].pc = "done"
    /\ threads' = [threads EXCEPT ![w] = IdleThread]
    /\ UNCHANGED <<store, config, scenario>>

Starts(w, op) == threads[w].pc = "start" /\ threads[w].req.op = op

\* A handler that makes one store call and returns.
OneCall(h, response) ==
    [h EXCEPT !.pc = "done", !.calls = 1, !.resp = response,
              !.raised = (Outcome(h) = "raise")]

HealthCheck(w) ==
    /\ Starts(w, "health_check")
    /\ threads' = [threads EXCEPT ![w] = Respond(@, HealthCheckResponse)]
    /\ UNCHANGED <<store, config, scenario>>

GetConfig(w) ==
    /\ Starts(w, "get_config")
    /\ LET h == threads[w]
       IN  threads' = [threads EXCEPT ![w] =
                         OneCall(h, GetConfigResponse(store, config, Outcome(h)))]
    /\ UNCHANGED <<store, config, scenario>>

GetProfiles(w) ==
    /\ Starts(w, "get_profiles")
    /\ LET h == threads[w]
       IN  threads' = [threads EXCEPT ![w] =
                         OneCall(h, GetProfilesResponse(store, Outcome(h)))]
    /\ UNCHANGED <<store, config, scenario>>

GetProfile(w) ==
    /\ Starts(w, "get_profile")
    /\ LET h == threads[w]
       IN  threads' = [threads EXCEPT ![w] =
                         OneCall(h, GetProfileResponse(store, h.req.email, Outcome(h)))]
    /\ UNCHANGED <<store, config, scenario>>

\* update_config up to its first store call: the 400 of an empty
\* receiver_emails, or the loop up to its first entry that is not skipped.
UpdateConfig(w) ==
    /\ Starts(w, "update_config")
    /\ LET h == threads[w]
       IN  threads' = [threads EXCEPT ![w] =
              IF NoReceivers(h.req.body)
              THEN Respond(h, NoReceiversResponse)
              ELSE AtEmail(h, NextEmail(h.req.body["receiver_emails"], 1))]
    /\ UNCHANGED <<store, config, scenario>>

\* profile = get_user_profile(email), and `if not profile:`.
UpdateConfigGet(w) ==
    /\ threads[w].pc = "get"
    /\ LET h == threads[w]
           called == [h EXCEPT !.calls = @ + 1]
           profile == GetUserProfile(store, EmailOf(h))
       IN  threads' = [threads EXCEPT ![w] =
              IF Outcome(h) = "raise"
              THEN Failed(called)
              ELSE IF Outcome(h) = "ok" /\ profile.found
              THEN [called EXCEPT !.pc = "update"]
              ELSE [called EXCEPT !.pc = "create"]]
    /\ UNCHANGED <<store, config, scenario>>

\* profile = create_default_profile(email, name=email.split('@')[0]), and
\* `if profile:`, which skips the update of a profile that was not created.
UpdateConfigCreate(w) ==
    /\ threads[w].pc = "create"
    /\ LET h == threads[w]
           called == [h EXCEPT !.calls = @ + 1]
           made == CreateDefaultProfile(store, EmailOf(h), SplitAt(EmailOf(h)))
       IN  IF Outcome(h) = "raise" \/ (Outcome(h) = "ok" /\ made.raised)
           THEN /\ threads' = [threads EXCEPT ![w] = Failed(called)]
                /\ UNCHANGED store
           ELSE IF Outcome(h) = "none"
           THEN /\ threads' = [threads EXCEPT ![w] = AfterEmail(called)]
                /\ UNCHANGED store
           ELSE /\ threads' = [threads EXCEPT ![w] =
                                 [called EXCEPT !.pc = "update",
                                                !.created = Append(@, EmailOf(h))]]
                /\ store' = made.store
    /\ UNCHANGED <<config, scenario>>

\* updated_profile = update_user_profile(email, **update_data), and
\* `if updated_profile:`, then the loop up to its next store call.
UpdateConfigUpdate(w) ==
    /\ threads[w].pc = "update"
    /\ LET h == threads[w]
           called == [h EXCEPT !.calls = @ + 1]
           profile == GetUserProfile(store, EmailOf(h)).profile
           done == UpdateUserProfile(store, EmailOf(h), UpdateData(profile, h.req.body))
       IN  IF Outcome(h) = "raise"
           THEN /\ threads' = [threads EXCEPT ![w] = Failed(called)]
                /\ UNCHANGED store
           ELSE IF Outcome(h) = "none" \/ ~done.found
           THEN /\ threads' = [threads EXCEPT ![w] = AfterEmail(called)]
                /\ UNCHANGED store
           ELSE /\ threads' = [threads EXCEPT ![w] =
                                 AfterEmail([called EXCEPT
                                               !.updated = Append(@, done.profile)])]
                /\ store' = done.store
    /\ UNCHANGED <<config, scenario>>

Next ==
    \/ \E w \in Threads(scenario) : Receive(w)
    \/ \E w \in Threads(scenario) : Resubmit(w)
    \/ \E w \in Threads(scenario) : Reply(w)
    \/ \E w \in Threads(scenario) : HealthCheck(w)
    \/ \E w \in Threads(scenario) : GetConfig(w)
    \/ \E w \in Threads(scenario) : GetProfiles(w)
    \/ \E w \in Threads(scenario) : GetProfile(w)
    \/ \E w \in Threads(scenario) : UpdateConfig(w)
    \/ \E w \in Threads(scenario) : UpdateConfigGet(w)
    \/ \E w \in Threads(scenario) : UpdateConfigCreate(w)
    \/ \E w \in Threads(scenario) : UpdateConfigUpdate(w)

\* One request at a time, every store call succeeding.
Spec == Init /\ [][Next]_vars

\* One request at a time, one store call of a request failing.
SpecFault == InitFault /\ [][Next]_vars

\* Two requests in flight at once, every store call succeeding.
SpecConc == InitConc /\ [][Next]_vars

(***************************************************************************)
(* Vocabulary of the properties.                                           *)
(***************************************************************************)
\* The step in which a thread returns the response to a request of the
\* given operation.
Finishes(w, op) ==
    threads[w].pc # "done" /\ threads'[w].pc = "done" /\ threads'[w].req.op = op

\* The state in which a thread has returned such a response.
Finished(w, op) == threads[w].pc = "done" /\ threads[w].req.op = op

Elems(xs) == {xs[i] : i \in 1..Len(xs)}

StoredEmails(st) == {st[i].email : i \in 1..Len(st)}

\* The emails a body names: its entries without surrounding whitespace, the
\* blank ones left out.
ListedEmails(body) ==
    {Strip(e) : e \in Elems(Get(body, "receiver_emails", <<>>))} \ {<<>>}

\* The row of an email in the table.
RowOf(st, email) == st[CHOOSE i \in 1..Len(st) : st[i].email = email]

\* The row a handler starts from: the stored one, or the default one it creates.
RowBefore(st, email) ==
    IF email \in StoredEmails(st) THEN RowOf(st, email)
    ELSE DefaultProfile(email, SplitAt(email))

Present(body, key) == key \in DOMAIN body /\ body[key] # <<>>

(***************************************************************************)
(* C1.  A POST /config whose receiver_emails is missing or empty answers   *)
(* 400 with an error field and leaves the table as it was, whatever the    *)
(* other fields of the body hold.                                          *)
(***************************************************************************)
C1_NoReceiversRejected ==
    [][ \A w \in DOMAIN threads :
          LET h == threads'[w]
          IN  (/\ Finishes(w, "update_config")
               /\ \/ "receiver_emails" \notin DOMAIN h.req.body
                  \/ h.req.body["receiver_emails"] = <<>>)
              => /\ h.resp.status = 400
                 /\ "error" \in DOMAIN h.resp.body
                 /\ h.calls = 0
                 /\ store' = h.before ]_vars

C1_Witness ==
    \E w \in DOMAIN threads :
       LET h == threads[w]
       IN  /\ Finished(w, "update_config")
           /\ "receiver_emails" \in DOMAIN h.req.body
           /\ h.req.body["receiver_emails"] = <<>>
           /\ {"locations", "salary_ranges", "experience_min", "job_title"}
                 \subseteq DOMAIN h.req.body
           /\ h.resp.status = 400
           /\ store # <<>>

(***************************************************************************)
(* C2.  After a successful POST /config with a non-empty salary_ranges,    *)
(* every updated profile has expected_salary_min equal to the least min    *)
(* and expected_salary_max equal to the greatest max of the supplied       *)
(* ranges, a min or max of 0 included.                                     *)
(***************************************************************************)
SuppliedMins(ranges) == {ranges[i].min : i \in {j \in 1..Len(ranges) : "min" \in DOMAIN ranges[j]}}
SuppliedMaxs(ranges) == {ranges[i].max : i \in {j \in 1..Len(ranges) : "max" \in DOMAIN ranges[j]}}

C2_SalaryMinOfMinsMaxOfMaxs ==
    \A w \in DOMAIN threads :
       LET h == threads[w]
       IN  (/\ Finished(w, "update_config")
            /\ h.resp.status = 200
            /\ Present(h.req.body, "salary_ranges"))
           => \A i \in 1..Len(h.resp.body.profiles) :
                 LET profile == h.resp.body.profiles[i]
                     ranges == h.req.body["salary_ranges"]
                 IN  /\ SuppliedMins(ranges) # {}
                           => profile.expected_salary_min = SetMin(SuppliedMins(ranges))
                     /\ SuppliedMaxs(ranges) # {}
                           => profile.expected_salary_max = SetMax(SuppliedMaxs(ranges))

(***************************************************************************)
(* C3.  After a successful POST /config with a non-empty job_title, every  *)
(* updated profile has current_role = job_title, and primary_skills set by *)
(* the first keyword the lower-cased title contains, in the order python,  *)
(* react or frontend, backend; with no keyword the skills stay as before.  *)
(***************************************************************************)
\* The characters that are the letter c of a keyword in either case: c, its
\* capital and, for k, the Kelvin sign.
SameLetter(c) == {c, c - 32} \cup (IF c = 107 THEN {8490} ELSE {})

\* The keyword occurs in the title, the case of the title's letters ignored.
Occurs(title, word) ==
    \E i \in 1..(Len(title) - Len(word) + 1) :
       \A k \in 1..Len(word) : title[i + k - 1] \in SameLetter(word[k])

ClaimedSkills(title, before) ==
    LET has(word) == Occurs(title, word)
    IN  CASE has(Python) -> <<"Python", "JavaScript", "React">>
          [] ~has(Python) /\ (has(React) \/ has(Frontend)) ->
                <<"React", "JavaScript", "TypeScript">>
          [] ~has(Python) /\ ~has(React) /\ ~has(Frontend) /\ has(Backend) ->
                <<"Python", "Java", "Node.js">>
          [] OTHER -> before

C3_SkillsByKeywordPrecedence ==
    [][ \A w \in DOMAIN threads :
          LET h == threads'[w]
          IN  (/\ Finishes(w, "update_config")
               /\ h.resp.status = 200
               /\ Present(h.req.body, "job_title"))
              => \A e \in ListedEmails(h.req.body) :
                    /\ RowOf(store', e).current_role = h.req.body["job_title"]
                    /\ RowOf(store', e).primary_skills =
                          ClaimedSkills(h.req.body["job_title"],
                                        RowBefore(h.before, e).primary_skills) ]_vars

\* A title holding both "frontend" and "backend" gave the frontend skills,
\* after a title in capitals whose K is the Kelvin sign gave another profile
\* the backend skills.
C3_Witness ==
    \E w \in DOMAIN threads :
       LET h == threads[w]
       IN  /\ Finished(w, "update_config")
           /\ h.resp.status = 200
           /\ Present(h.req.body, "job_title")
           /\ h.req.body["job_title"] = FrontendBackend
           /\ h.resp.body.updated_count = 1
           /\ h.resp.body.profiles[1].email = EmailA
           /\ h.resp.body.profiles[1].primary_skills = <<"React", "JavaScript", "TypeScript">>
           /\ EmailB \in StoredEmails(store)
           /\ RowOf(store, EmailB).current_role = KelvinBackend
           /\ RowOf(store, EmailB).primary_skills = <<"Python", "Java", "Node.js">>

(***************************************************************************)
(* C4.  POST /config is idempotent: when a client sends the same body a    *)
(* second time, right after the first, the second request leaves every     *)
(* profile as the first left it, creates none, and answers with the same   *)
(* profiles list and updated_count.                                        *)
(***************************************************************************)
C4_UpdateConfigIdempotent ==
    \A w \in DOMAIN threads :
       LET h == threads[w]
       IN  (Finished(w, "update_config") /\ h.prev # NoResponse)
           => /\ store = h.before
              /\ h.resp = h.prev
              /\ h.created = <<>>

\* The second of two requests whose first created the profile of EmailA in a
\* table that held another, and set three of its fields.
C4_Witness ==
    \E w \in DOMAIN threads :
       LET h == threads[w]
       IN  /\ Finished(w, "update_config")
           /\ h.prev.status = 200
           /\ h.resp.status = 200
           /\ Present(h.req.body, "locations")
           /\ Present(h.req.body, "job_title")
           /\ "experience_min" \in DOMAIN h.req.body
           /\ "salary_ranges" \notin DOMAIN h.req.body
           /\ h.resp.body.updated_count = 1
           /\ Len(store) = 2
           /\ store[2].email = EmailA
           /\ store[2].expected_salary_max = 0
           /\ store[2].preferred_locations = <<NYC>>

(***************************************************************************)
(* C5.  After a successful POST /config with a non-empty locations list,   *)
(* every updated profile's preferred_locations is the supplied list with   *)
(* each entry stripped and the blank entries dropped, in the supplied      *)
(* order, whatever it was before; with locations missing or empty it is    *)
(* what it was before.                                                     *)
(***************************************************************************)
RECURSIVE ClaimedLocations(_)
ClaimedLocations(locs) ==
    IF locs = <<>> THEN <<>>
    ELSE IF \A i \in 1..Len(Head(locs)) : Head(locs)[i] \in Whitespace
    THEN ClaimedLocations(Tail(locs))
    ELSE <<Strip(Head(locs))>> \o ClaimedLocations(Tail(locs))

C5_LocationsReplacedWholesale ==
    [][ \A w \in DOMAIN threads :
          LET h == threads'[w]
          IN  (Finishes(w, "update_config") /\ h.resp.status = 200)
              => \A e \in ListedEmails(h.req.body) :
                    RowOf(store', e).preferred_locations =
                       IF Present(h.req.body, "locations")
                       THEN ClaimedLocations(h.req.body["locations"])
                       ELSE RowBefore(h.before, e).preferred_locations ]_vars

\* A stored profile's list <<"Pune">> was replaced by <<"LA">>, a blank dropped.
C5_Witness ==
    \E w \in DOMAIN threads :
       LET h == threads[w]
       IN  /\ Finished(w, "update_config")
           /\ h.resp.status = 200
           /\ Present(h.req.body, "locations")
           /\ h.req.body["locations"] = <<LAPadded, Blank>>
           /\ h.created = <<>>
           /\ EmailA \in StoredEmails(h.before)
           /\ RowOf(h.before, EmailA).preferred_locations = <<Pune>>
           /\ h.resp.body.updated_count = 1
           /\ h.resp.body.profiles[1].preferred_locations = <<<<76, 65>>>>

(***************************************************************************)
(* C6.  GET /profiles/{email} answers 404 with an error field exactly when *)
(* the table holds no profile for the email, and 200 with the profile      *)
(* otherwise; no step removes a profile, and a successful POST /config     *)
(* leaves a profile for each email it names: after that POST a GET for     *)
(* such an email never answers 404 again.                                  *)
(***************************************************************************)
C6_ProfileFoundOnceConfigured ==
    [][ /\ \A w \in DOMAIN threads :
              LET h == threads'[w]
              IN  /\ Finishes(w, "get_profile")
                     => IF h.req.email \in StoredEmails(store)
                        THEN h.resp.status = 200 /\ h.resp.body = RowOf(store, h.req.email)
                        ELSE h.resp.status = 404 /\ "error" \in DOMAIN h.resp.body
                  /\ (Finishes(w, "update_config") /\ h.resp.status = 200)
                     => ListedEmails(h.req.body) \subseteq StoredEmails(store')
        /\ StoredEmails(store) \subseteq StoredEmails(store') ]_vars

\* A GET for an email that a POST created (its row is not a StoredProfile).
C6_Witness ==
    \E w \in DOMAIN threads :
       LET h == threads[w]
       IN  /\ Finished(w, "get_profile")
           /\ h.req.email = EmailB
           /\ h.resp.status = 200
           /\ h.resp.body.email = EmailB
           /\ h.resp.body.current_role # Analyst

(***************************************************************************)
(* C7.  The table holds at most one profile per email, and a successful    *)
(* POST /config makes the set of profile emails the previous set united    *)
(* with the stripped non-blank entries of receiver_emails: exactly one     *)
(* default profile is created for each such email that had none, and none  *)
(* for an email already present, repeated in the request, or blank.        *)
(***************************************************************************)
UniqueEmails(st) == \A i, j \in 1..Len(st) : st[i].email = st[j].email => i = j

C7_OneProfilePerEmail ==
    /\ UniqueEmails(store)
    /\ [][ /\ UniqueEmails(store')
           /\ \A w \in DOMAIN threads :
                 LET h == threads'[w]
                     new == ListedEmails(h.req.body) \ StoredEmails(h.before)
                 IN  (Finishes(w, "update_config") /\ h.resp.status = 200)
                     => /\ StoredEmails(store') =
                              StoredEmails(h.before) \cup ListedEmails(h.req.body)
                        /\ Len(store') = Len(h.before) + Cardinality(new)
                        /\ Elems(h.created) = new
                        /\ Len(h.created) = Cardinality(new)
                        /\ \A e \in new :
                              \E i \in (Len(h.before) + 1)..Len(store') :
                                 /\ store'[i].email = e
                                 /\ store'[i].name = SplitAt(e) ]_vars

\* One request naming the same new email twice, once padded.
C7_Witness ==
    \E w \in DOMAIN threads :
       LET h == threads[w]
       IN  /\ Finished(w, "update_config")
           /\ h.resp.status = 200
           /\ h.req.body["receiver_emails"] = <<EmailAPadded, EmailA>>
           /\ h.created = <<EmailA>>
           /\ h.resp.body.updated_count = 2
           /\ h.before = <<>>
           /\ Len(store) = 1

(***************************************************************************)
(* C8.  Whenever a store call raises while GET /config, POST /config,      *)
(* GET /profiles or GET /profiles/{email} is handled, the response is 500  *)
(* with an error field; GET /health makes no store call and answers        *)
(* "healthy" also when the store cannot be reached.                        *)
(***************************************************************************)
C8_StoreFailureIs500 ==
    \A w \in DOMAIN threads :
       LET h == threads[w]
       IN  h.pc = "done"
           => /\ h.raised
                 => /\ h.resp.status = 500
                    /\ DOMAIN h.resp.body = {"error"}
              /\ h.req.op = "health_check"
                 => /\ h.calls = 0
                    /\ ~h.raised
                    /\ h.resp.status = 200
                    /\ h.resp.body.status = "healthy"

\* The update of a profile raised after the profile had been created.
C8_Witness ==
    \E w \in DOMAIN threads :
       LET h == threads[w]
       IN  /\ Finished(w, "update_config")
           /\ h.req.fault = [at |-> 3, kind |-> "raise"]
           /\ h.calls = 3
           /\ h.raised
           /\ h.resp.status = 500
           /\ h.created = <<EmailA>>
           /\ store # <<>>
           /\ store[Len(store)] = DefaultProfile(EmailA, <<97>>)

(***************************************************************************)
(* C9.  POST /config changes only the profiles of the emails it names, and *)
(* of those only the fields the body holds a value for; experience_max     *)
(* changes nothing; no GET changes the table; Config never changes.        *)
(***************************************************************************)
\* The body key a profile field is set from ("" for a field never set).
KeyOf(field) ==
    CASE field = "preferred_locations" -> "locations"
      [] field \in {"expected_salary_min", "expected_salary_max"} -> "salary_ranges"
      [] field = "experience_years" -> "experience_min"
      [] field \in {"current_role", "primary_skills"} -> "job_title"
      [] OTHER -> ""

\* The body holds a value for the key: a number, or a non-empty list or str.
Supplies(body, key) ==
    key \in DOMAIN body /\ (key = "experience_min" \/ body[key] # <<>>)

Without(body, key) == [k \in DOMAIN body \ {key} |-> body[k]]

C9_Frame ==
    [][ /\ config' = config
        /\ (\A w \in DOMAIN threads : threads'[w].req.op # "update_config")
           => store' = store
        /\ \A w \in DOMAIN threads :
              LET h == threads'[w]
              IN  Finishes(w, "update_config")
                  => /\ \A i \in 1..Len(h.before) :
                           h.before[i].email \notin ListedEmails(h.req.body)
                              => store'[i] = h.before[i]
                     /\ \A e \in StoredEmails(store') :
                           \A field \in DOMAIN RowOf(store', e) :
                              ~Supplies(h.req.body, KeyOf(field))
                                 => RowOf(store', e)[field] = RowBefore(h.before, e)[field]
                     /\ \A e \in ListedEmails(h.req.body) \cap StoredEmails(store') :
                           /\ RowOf(store', e).experience_years =
                                 Get(h.req.body, "experience_min",
                                     RowBefore(h.before, e).experience_years)
                           /\ UpdateData(RowBefore(h.before, e), h.req.body) =
                                 UpdateData(RowBefore(h.before, e),
                                            Without(h.req.body, "experience_max")) ]_vars

\* Only experience_max and locations were sent for a stored profile.
C9_Witness ==
    \E w \in DOMAIN threads :
       LET h == threads[w]
       IN  /\ Finished(w, "update_config")
           /\ h.resp.status = 200
           /\ DOMAIN h.req.body = {"receiver_emails", "locations", "experience_max"}
           /\ h.before = <<StoredProfile(EmailB), StoredProfile(EmailA)>>
           /\ store = <<StoredProfile(EmailB),
                        [StoredProfile(EmailA) EXCEPT !.preferred_locations = <<NYC>>]>>

(***************************************************************************)
(* C10.  When two POST /config requests for the same email, which has no   *)
(* profile yet, run concurrently, create_default_profile is never invoked  *)
(* for an email that already has a profile; the table ends with exactly    *)
(* one profile for that email and both requests succeed.                   *)
(***************************************************************************)
C10_CreateExactlyOnce ==
    [][ \A w \in DOMAIN threads :
          /\ (threads[w].pc = "create" /\ threads'[w].pc # "create")
                => ~HasProfile(store, EmailOf(threads[w]))
          /\ (Finishes(w, "update_config") /\ ~NoReceivers(threads'[w].req.body))
                => /\ threads'[w].resp.status = 200
                   /\ \A e \in ListedEmails(threads'[w].req.body) :
                         Cardinality(RowsOf(store', e)) = 1 ]_vars

====
